---- MODULE Spec2Model ----
(***************************************************************************)
(* A model of the CSIDH core of velusqrt: the prime field F_p (sidh/fp.py) *)
(* and the Montgomery x-only arithmetic built on it                        *)
(* (sidh/csidh/montgomery.py), with the facade of sidh/csidh/__init__.py.  *)
(* Python lists are 0-based; sequences here are 1-based, so L[j] of the    *)
(* code is L[j + 1] here and a point [X, Z] is <<X, Z>> with Z = P[2].     *)
(***************************************************************************)
EXTENDS Integers, Sequences, FiniteSets, TLC

VARIABLES
    p,                  \* F_p.p, the prime of the field instance
    style,              \* the style handed to MontgomeryLadder
    validation_stop,    \* fp.validation_stop
    SDACS,              \* the chain table of the ladder instance
    pc,                 \* the position of the call being modelled
    A,                  \* a projective curve constant <<A24, C24>>
    affine,             \* the argument of affine_to_projective
    coeff_out,          \* the value returned by coeff
    u,                  \* the value elligator draws with random.randint
    T_p,                \* the point T_p of the running call
    T_m,                \* the point T_m of the running call
    P,                  \* the point handed to xMUL or prime_factors
    j,                  \* the index handed to xMUL
    points,             \* the index list handed to prime_factors
    Q,                  \* the point returned by xMUL
    factors,            \* the list returned by prime_factors
    i,                  \* the loop index of validate
    bits_of_the_order,  \* the accumulator of validate
    ret,                \* what validate returned: "None" while it runs
    output,             \* the two slots of full_torsion_points
    twist_used,         \* whether full_torsion_points doubled or factored a T_m
    cache,              \* the file sdacs_data + prime
    ladder,             \* how the call MontgomeryLadder(prime, style) ended
    sk_a, sk_b,         \* the bytes secret_key() returned to each party
    pk_a, pk_b,         \* what public_key(sk_a), public_key(sk_b) gave
    ss_a, ss_b,         \* what dh(sk_a, pk_b), dh(sk_b, pk_a) gave
    fpadd, fpsqr, fpmul,\* the operation counters of the field instance
    fp_a,               \* the operand a of fp_inv, jacobi or fp_exp
    fp_e,               \* the exponent e of fp_exp
    fp_out,             \* the value the field call returned
    args,               \* the positional arguments of a call CSIDH(...)
    inst                \* the attributes CSIDH.__init__ set on the instance

cfgVars == <<p, style, validation_stop, SDACS>>
coeffVars == <<affine, coeff_out>>
pointVars == <<u, T_p, T_m>>
mulVars == <<P, j, points, Q, factors>>
validateVars == <<i, bits_of_the_order, ret>>
torsionVars == <<output, twist_used>>
ladderVars == <<cache, ladder>>
kexVars == <<sk_a, sk_b, pk_a, pk_b, ss_a, ss_b>>
opsVars == <<fpadd, fpsqr, fpmul>>
fieldVars == <<opsVars, fp_a, fp_e, fp_out>>
ctorVars == <<args, inst>>
vars == <<cfgVars, pc, A, coeffVars, pointVars, mulVars, validateVars, torsionVars,
          ladderVars, kexVars, fieldVars, ctorVars>>

\* the values of the variables a specification does not use
IdleCoeffVars == affine = -1 /\ coeff_out = -1
IdlePointVars == u = -1 /\ T_p = <<0, 0>> /\ T_m = <<0, 0>>
IdleMulVars == P = <<0, 0>> /\ j = -1 /\ points = <<>> /\ Q = <<0, 0>> /\ factors = <<>>
IdleValidateVars == i = -1 /\ bits_of_the_order = 0 /\ ret = "None"
IdleTorsionVars == output = <<>> /\ twist_used = FALSE
\* a specification that starts from a constructed ladder: the file held its chains
IdleLadderVars == cache = [state |-> "present", lines |-> SDACS] /\ ladder = "constructed"
\* no call of the facade has been made
NoBytes == <<-2>>
\* no counted field call has been made
IdleFieldVars ==
    /\ fpadd = 0 /\ fpsqr = 0 /\ fpmul = 0
    /\ fp_a = -1 /\ fp_e = -1 /\ fp_out = -1
\* the constructor call of the facade is not modelled
IdleCtorVars == args = <<>> /\ inst = <<>>
IdleKexVars ==
    /\ sk_a = NoBytes /\ sk_b = NoBytes
    /\ pk_a = NoBytes /\ pk_b = NoBytes
    /\ ss_a = NoBytes /\ ss_b = NoBytes

(***************************************************************************)
(* Bounds of the model.                                                    *)
(***************************************************************************)
\* the field primes of the pure-function specifications are those <= MaxPrime
MaxPrime == 23
\* validate and full_torsion_points run on the affine coefficients <= MaxAffine
MaxAffine == 15
\* a cache file holds at most MaxLines lines of at most MaxLineLen integers
MaxLines == 2
MaxLineLen == 2
\* the largest magnitude of a coordinate of a secret exponent vector
MaxExponent == 1
\* the group action returns its curve constant scaled by a factor <= MaxScale
MaxScale == 2
\* fp_exp is called with the exponents 0..MaxExp
MaxExp == 16

(***************************************************************************)
(* Parameter tables (sidh/constants.py, read through parameters[...]).     *)
(***************************************************************************)
IsPrime(q) == q > 1 /\ \A d \in 2..(q - 1) : q % d # 0

\* parameters['csidh'][prime]['L'] keyed by the prime: p = 4 * prod(L) - 1
SOP(q) ==
    CASE q = 11 -> <<3>>
      [] q = 59 -> <<3, 5>>
      [] q = 83 -> <<3, 7>>
      [] q = 131 -> <<3, 11>>
      [] q = 139 -> <<5, 7>>
      [] q = 419 -> <<3, 5, 7>>
      [] q = 659 -> <<3, 5, 11>>
      [] q = 1019 -> <<3, 5, 17>>
      [] q = 1091 -> <<3, 7, 13>>
      [] OTHER -> <<>>

L == SOP(p)
n == Len(L)
exponent_of_two == 2
p_minus_one_halves == (p - 1) \div 2

\* parameters['csidh']['A'], the starting constant (A24_0, C24_0)
A_start == <<2, 4>>

RECURSIVE bitlength(_)
bitlength(x) == IF x = 0 THEN 0 ELSE 1 + bitlength(x \div 2)

(***************************************************************************)
(* sidh/fp.py                                                              *)
(***************************************************************************)
fp_add(a, b) == (a + b) % p
fp_sub(a, b) == (a - b) % p
fp_mul(a, b) == (a * b) % p
fp_sqr(a) == (a * a) % p

\* the while loop of xgcd on (lastremainder, remainder, x, lastx, y, lasty)
RECURSIVE xgcd_loop(_, _, _, _, _, _)
xgcd_loop(lastremainder, remainder, x, lastx, y, lasty) ==
    IF remainder = 0
    THEN <<lastremainder, lastx, lasty>>
    ELSE LET quotient == lastremainder \div remainder
         IN  xgcd_loop(remainder, lastremainder % remainder,
                       lastx - quotient * x, x, lasty - quotient * y, y)

Abs(x) == IF x < 0 THEN -x ELSE x

xgcd(aa, bb) ==
    LET r == xgcd_loop(Abs(aa), Abs(bb), 0, 1, 1, 0)
    IN  <<r[1], r[2] * (IF aa < 0 THEN -1 ELSE 1), r[3] * (IF bb < 0 THEN -1 ELSE 1)>>

\* fp_inv without the final reduction "x % self.p"
fp_inv_unreduced(a) == xgcd(a, p)[2]

fp_inv(a) == xgcd(a, p)[2] % p

\* z[::(1 - 2 * b)] of the two-element list z = [x, y]
fp_cswap(x, y, b) ==
    LET step == 1 - 2 * b
    IN  IF step = 1 THEN <<x, y>>
        ELSE IF step = -1 THEN <<y, x>>
        ELSE IF step > 1 THEN <<x>>
        ELSE IF step < -1 THEN <<y>>
        ELSE <<>>

\* the loops of jacobi, after its assertion
RECURSIVE jacobi_loop_with(_, _, _, _)
jacobi_loop_with(a, mm, t, reciprocity) ==
    IF a = 0 THEN (IF mm = 1 THEN t ELSE 0)
    ELSE IF a % 2 = 0
    THEN jacobi_loop_with(a \div 2, mm, IF (mm % 8) \in {3, 5} THEN -t ELSE t,
                          reciprocity)
    ELSE jacobi_loop_with(mm % a, a,
                          IF reciprocity /\ a % 4 = 3 /\ mm % 4 = 3 THEN -t ELSE t,
                          reciprocity)

\* the loops without the sign change of "if a % 4 == n % 4 == 3"
jacobi_loop_unflipped(a, mm, t) == jacobi_loop_with(a, mm, t, FALSE)

jacobi_loop(a, mm, t) == jacobi_loop_with(a, mm, t, TRUE)

\* the value standing for the AssertionError of jacobi's first line
JacobiAssertionError == 2

jacobi(a, mm) ==
    IF ~(mm > a /\ a > 0 /\ mm % 2 = 1) THEN JacobiAssertionError
    ELSE jacobi_loop(a, mm, 1)

(***************************************************************************)
(* sidh/csidh/montgomery.py: curve constants                               *)
(***************************************************************************)
affine_to_projective_noshift(a) == <<fp_add(a, 0), fp_add(0, A_start[2])>>

affine_to_projective(a) == <<fp_add(a, A_start[1]), fp_add(0, A_start[2])>>

coeff_nodouble(C) ==
    LET o1 == fp_add(C[1], C[1])
        o2 == fp_sub(o1, C[2])
        C24_inv == fp_inv(C[2])
    IN  fp_mul(o2, C24_inv)

coeff(C) ==
    LET o1 == fp_add(C[1], C[1])
        o2 == fp_sub(o1, C[2])
        C24_inv == fp_inv(C[2])
        o3 == fp_add(o2, o2)
    IN  fp_mul(o3, C24_inv)

(***************************************************************************)
(* Specification SpecCoeff: coeff and affine_to_projective applied to      *)
(* every curve constant and every affine coefficient of the field.         *)
(***************************************************************************)
\* the variables the specification leaves alone
notCoeff == <<fieldVars, ctorVars, kexVars, ladderVars, pointVars, mulVars, validateVars, torsionVars>>

FieldPrimes == {q \in 3..MaxPrime : IsPrime(q)}

InitCoeff ==
    /\ p \in FieldPrimes
    /\ style = "df"
    /\ validation_stop = 0
    /\ SDACS = <<>>
    /\ pc = "start"
    /\ A \in (0..(p - 1)) \X (0..(p - 1))
    /\ IdleCoeffVars
    /\ IdlePointVars
    /\ IdleMulVars
    /\ IdleValidateVars
    /\ IdleTorsionVars
    /\ IdleFieldVars
    /\ IdleCtorVars
    /\ IdleLadderVars
    /\ IdleKexVars

\* res = affine_to_projective(a)
CallAffineToProjective ==
    /\ pc = "start"
    /\ A = A_start
    /\ \E a \in 0..(p - 1) :
        /\ affine' = a
        /\ A' = affine_to_projective(a)
    /\ pc' = "projective"
    /\ UNCHANGED <<cfgVars, coeff_out, notCoeff>>

\* output = coeff(A)
CallCoeff ==
    /\ pc \in {"start", "projective"}
    /\ coeff_out' = coeff(A)
    /\ pc' = IF pc = "start" THEN "coeff" ELSE "roundtrip"
    /\ UNCHANGED <<cfgVars, A, affine, notCoeff>>

NextCoeff == CallAffineToProjective \/ CallCoeff

SpecCoeff == InitCoeff /\ [][NextCoeff]_vars

(***************************************************************************)
(* C6 (as stated): for C24 # 0, coeff((A24, C24)) is the field element     *)
(* (2*A24 - C24) / (C24/4), that is coeff * C24 = 4 * (2*A24 - C24) mod p. *)
(***************************************************************************)
C6_AsStated ==
    (pc = "coeff" /\ A[2] # 0) =>
        /\ coeff_out \in 0..(p - 1)
        /\ (coeff_out * A[2]) % p = (4 * (2 * A[1] - A[2])) % p

(***************************************************************************)
(* C6 (amended): for C24 # 0, coeff((A24, C24)) is the field element       *)
(* (2*A24 - C24) / (C24/2) = A/C: coeff * C24 = 2 * (2*A24 - C24) mod p.   *)
(***************************************************************************)
C6_Coeff ==
    (pc = "coeff" /\ A[2] # 0) =>
        /\ coeff_out \in 0..(p - 1)
        /\ (coeff_out * A[2]) % p = (2 * (2 * A[1] - A[2])) % p

C6_Witness == pc = "coeff" /\ A = <<3, 4>> /\ coeff_out = 1

(***************************************************************************)
(* C7: with the starting constant (2, 4), coeff(affine_to_projective(a))   *)
(* = a for every a in [0, p), and coeff of the starting constant is 0.     *)
(***************************************************************************)
C7_RoundTrip ==
    /\ pc = "roundtrip" => coeff_out = affine
    /\ (pc = "coeff" /\ A = A_start) => coeff_out = 0

C7_Witness == pc = "roundtrip" /\ affine = p - 1 /\ coeff_out = p - 1

(***************************************************************************)
(* sidh/csidh/montgomery.py: elligator                                     *)
(***************************************************************************)
\* the body of elligator with u the value drawn; final_swap is the bit
\* handed to the last fp_cswap.  A one-element result is the exception
\* raised: the AssertionError of jacobi, or the failed unpacking of a
\* fp_cswap that did not return two values.
elligator_values_with(C, u0, select_on_zero) ==
    LET Ap1 == fp_add(C[1], C[1])
        Ap2 == fp_sub(Ap1, C[2])
        Ap == fp_add(Ap2, Ap2)
        Cp == C[2]
        u_squared == fp_sqr(u0)
        u_squared_plus_one == fp_add(u_squared, 1)
        u_squared_minus_one == fp_sub(u_squared, 1)
        C_times_u_squared_minus_one == fp_mul(Cp, u_squared_minus_one)
        AC_times_u_squared_minus_one == fp_mul(Ap, C_times_u_squared_minus_one)
        tmp1 == fp_sqr(Ap)
        tmp2 == fp_mul(tmp1, u_squared)
        aux == fp_sqr(C_times_u_squared_minus_one)
        tmp3 == fp_add(tmp2, aux)
        tmp4 == fp_mul(AC_times_u_squared_minus_one, tmp3)
        ab == fp_cswap(0, u0, IF select_on_zero /\ tmp4 = 0 THEN 1 ELSE 0)
        alpha1 == ab[1]
        u_squared_plus_one2 == fp_mul(alpha1, u_squared_plus_one)
        alpha == fp_mul(alpha1, C_times_u_squared_minus_one)
        Tp_X == fp_add(Ap, alpha)
        Tm_X1 == fp_mul(Ap, u_squared)
        Tm_X2 == fp_add(Tm_X1, alpha)
        Tm_X == fp_sub(0, Tm_X2)
        tmp == fp_add(tmp4, u_squared_plus_one2)
    IN  [Tp_X |-> Tp_X, Tm_X |-> Tm_X, tmp |-> tmp,
         C_times_u_squared_minus_one |-> C_times_u_squared_minus_one]

\* elligator without the first fp_cswap: alpha stays 0
elligator_values_alpha_zero(C, u0) == elligator_values_with(C, u0, FALSE)

\* the locals of elligator at its last fp_cswap
elligator_values(C, u0) == elligator_values_with(C, u0, TRUE)

\* the argument (1 - jacobi(tmp, fp.p)) // 2 of the last fp_cswap
elligator_bit(C, u0) == (1 - jacobi(elligator_values(C, u0).tmp, p)) \div 2

elligator_with(C, u0, swap_on_jacobi) ==
    LET v == elligator_values(C, u0)
        jac == jacobi(v.tmp, p)
        sw == fp_cswap(v.Tp_X, v.Tm_X, IF swap_on_jacobi THEN elligator_bit(C, u0) ELSE 0)
    IN  IF jac = JacobiAssertionError THEN <<"AssertionError">>
        ELSE IF Len(sw) # 2 THEN <<"ValueError">>
        ELSE << <<sw[1], v.C_times_u_squared_minus_one>>,
                <<sw[2], v.C_times_u_squared_minus_one>> >>

elligator_noswap(C, u0) == elligator_with(C, u0, FALSE)

elligator(C, u0) == elligator_with(C, u0, TRUE)

(***************************************************************************)
(* Specification SpecElligator: elligator on every curve constant of the   *)
(* field and every value of u that random.randint(2, (p-1)/2) can return.  *)
(***************************************************************************)
\* the variables the specification leaves alone
notElligator == <<fieldVars, ctorVars, kexVars, ladderVars, coeffVars, mulVars, validateVars, torsionVars>>

InitElligator ==
    /\ p \in {q \in FieldPrimes : q % 4 = 3}
    /\ style = "df"
    /\ validation_stop = 0
    /\ SDACS = <<>>
    /\ pc = "start"
    /\ A \in (0..(p - 1)) \X (0..(p - 1))
    /\ IdleCoeffVars
    /\ IdlePointVars
    /\ IdleMulVars
    /\ IdleValidateVars
    /\ IdleTorsionVars
    /\ IdleFieldVars
    /\ IdleCtorVars
    /\ IdleLadderVars
    /\ IdleKexVars

\* T_p, T_m = elligator(A)
CallElligator ==
    /\ pc = "start"
    /\ \E u0 \in 2..p_minus_one_halves :
        LET r == elligator(A, u0)
        IN  /\ u' = u0
            /\ IF Len(r) = 2
               THEN T_p' = r[1] /\ T_m' = r[2] /\ pc' = "elligator"
               ELSE UNCHANGED <<T_p, T_m>> /\ pc' = "raised"
    /\ UNCHANGED <<cfgVars, A, notElligator>>

NextElligator == CallElligator

SpecElligator == InitElligator /\ [][NextElligator]_vars

\* v is a nonzero square of the field
IsNonzeroSquare(v) == \E r \in 1..(p - 1) : (r * r) % p = v % p

\* the sign-determining part of x^3 + a*x^2 + x at x = X/Z, where a = A/C is
\* given by a * C24 = 2 * (2*A24 - C24): (X^3 + a*X^2*Z + X*Z^2) * Z, which
\* is the curve's right-hand side times the square Z^4
CurveRhs(C, T) ==
    LET a == CHOOSE a \in 0..(p - 1) : (a * C[2]) % p = (2 * (2 * C[1] - C[2])) % p
        X == T[1]
        Z == T[2]
    IN  (((X * X * X + a * X * X * Z + X * Z * Z) % p) * Z) % p

(***************************************************************************)
(* C8: for p = 3 mod 4, C24 # 0 and u in [2, (p-1)/2], elligator returns   *)
(* two points with the same nonzero Z; at x+ = X+/Z the value              *)
(* x^3 + a*x^2 + x is a nonzero square, at x- = X-/Z it is a non-square.   *)
(***************************************************************************)
C8_Elligator ==
    (pc \in {"elligator", "raised"} /\ A[2] # 0) =>
        /\ pc = "elligator"
        /\ T_p[2] = T_m[2]
        /\ T_p[2] \in 1..(p - 1)
        /\ IsNonzeroSquare(CurveRhs(A, T_p))
        /\ ~IsNonzeroSquare(CurveRhs(A, T_m))
        /\ CurveRhs(A, T_m) # 0

\* a curve with A # 0 on which the final fp_cswap exchanged the two values
C8_Witness ==
    /\ pc = "elligator"
    /\ A[2] # 0
    /\ (2 * A[1]) % p # A[2]
    /\ T_p[1] # (4 * A[1] - 2 * A[2]) % p
    /\ T_p[1] = (-(4 * A[1] - 2 * A[2]) * u * u) % p

(***************************************************************************)
(* C16: in elligator, for p = 3 mod 4, C24 # 0 (A = 0 included) and u in   *)
(* [2, (p-1)/2], the value passed to jacobi lies in [1, p): its assertion  *)
(* does not fail, it returns 1 or -1, and the bit given to fp_cswap is 0   *)
(* or 1.                                                                   *)
(***************************************************************************)
C16_JacobiArgument ==
    (pc \in {"elligator", "raised"} /\ A[2] # 0) =>
        /\ pc = "elligator"
        /\ elligator_values(A, u).tmp \in 1..(p - 1)
        /\ jacobi(elligator_values(A, u).tmp, p) \in {1, -1}
        /\ elligator_bit(A, u) \in {0, 1}

\* the curve A = 0 (2 * A24 = C24), where the first tmp is 0, and the
\* jacobi symbol -1, where the bit is 1
C16_Witness ==
    /\ pc = "elligator"
    /\ A[2] # 0
    /\ (2 * A[1]) % p = A[2]
    /\ jacobi(elligator_values(A, u).tmp, p) = -1
    /\ elligator_bit(A, u) = 1

(***************************************************************************)
(* Points.  A point of the curve is <<X, Z>>, as in the code.  A          *)
(* one-element sequence <<k>> is the point [k]G of a cyclic group of       *)
(* order p + 1 in which doubling and differential addition are exact;      *)
(* <<-1>> is the undefined result of a differential addition whose third   *)
(* operand is not the difference of the first two.                         *)
(***************************************************************************)
order == p + 1
Undefined == <<-1>>
IsIdeal(Pt) == Len(Pt) = 1

isinfinity(Pt) == IF IsIdeal(Pt) THEN Pt[1] = 0 ELSE Pt[2] = 0

xDBL(Pt, C) ==
    IF IsIdeal(Pt)
    THEN (IF Pt = Undefined THEN Undefined ELSE <<(2 * Pt[1]) % order>>)
    ELSE LET t_0a == fp_sub(Pt[1], Pt[2])
             t_1a == fp_add(Pt[1], Pt[2])
             t_0b == fp_sqr(t_0a)
             t_1b == fp_sqr(t_1a)
             Z1 == fp_mul(C[2], t_0b)
             X == fp_mul(Z1, t_1b)
             t_1c == fp_sub(t_1b, t_0b)
             t_0c == fp_mul(C[1], t_1c)
             Z2 == fp_add(Z1, t_0c)
             Z == fp_mul(Z2, t_1c)
         IN  <<X, Z>>

xADD(Pt, Qt, PQ) ==
    IF IsIdeal(Pt)
    THEN (IF Undefined \in {Pt, Qt, PQ} THEN Undefined
          ELSE IF PQ[1] \notin {(Pt[1] - Qt[1]) % order, (Qt[1] - Pt[1]) % order}
          THEN Undefined
          ELSE <<(Pt[1] + Qt[1]) % order>>)
    ELSE LET a1 == fp_add(Pt[1], Pt[2])
             b1 == fp_sub(Pt[1], Pt[2])
             c1 == fp_add(Qt[1], Qt[2])
             d1 == fp_sub(Qt[1], Qt[2])
             a2 == fp_mul(a1, d1)
             b2 == fp_mul(b1, c1)
             c2 == fp_add(a2, b2)
             d2 == fp_sub(a2, b2)
             c3 == fp_sqr(c2)
             d3 == fp_sqr(d2)
             X == fp_mul(PQ[2], c3)
             Z == fp_mul(PQ[1], d3)
         IN  <<X, Z>>

(***************************************************************************)
(* The SDAC engine: dacs, sdac, generate_sdacs.                            *)
(***************************************************************************)
\* len(chain) <= 1.5 * math.log(l, 2), that is 4^len <= l^3
WithinDepth(chain, l) == 4 ^ Len(chain) <= l * l * l

RECURSIVE dacs(_, _, _, _, _)
dacs(l, r0, r1, r2, chain) ==
    IF r2 = l THEN << <<chain, r2>> >>
    ELSE IF r2 < l /\ WithinDepth(chain, l)
    THEN dacs(l, r0, r2, r2 + r0, Append(chain, 1))
            \o dacs(l, r1, r2, r2 + r1, Append(chain, 0))
    ELSE <<>>

\* min(all_dacs, key=...): the first element of least key
RECURSIVE FirstShortest(_, _, _)
FirstShortest(all_dacs, at, best) ==
    IF at > Len(all_dacs) THEN best
    ELSE FirstShortest(all_dacs, at + 1,
            IF Len(all_dacs[at][1]) < Len(best[1]) THEN all_dacs[at] ELSE best)

\* the ValueError of min() on an empty list
SdacValueError == <<-1>>

sdac(l) ==
    LET all_dacs == dacs(l, 1, 2, 3, <<>>)
    IN  IF all_dacs = <<>> THEN SdacValueError
        ELSE FirstShortest(all_dacs, 2, all_dacs[1])[1]

generate_sdacs(Ls) == [k \in 1..Len(Ls) |-> sdac(Ls[k])]

SDACS_LENGTH == [k \in 1..Len(SDACS) |-> Len(SDACS[k])]

(***************************************************************************)
(* xMUL and prime_factors.                                                 *)
(***************************************************************************)
\* R after t rounds of the loop of xMUL; round t reads SDACS[j][len - t].
\* keep is the index that R[0] takes over: SDACS[j][i] ^ 1 in the code.
RECURSIVE xMUL_window(_, _, _, _, _)
xMUL_window(Pt, C, jj, t, flip) ==
    IF t = 0
    THEN LET P2 == xDBL(Pt, C)
         IN  <<Pt, P2, xADD(P2, Pt, Pt)>>
    ELSE LET R == xMUL_window(Pt, C, jj, t - 1, flip)
             bit == SDACS[jj + 1][SDACS_LENGTH[jj + 1] - t + 1]
             keep == IF flip THEN 1 - bit ELSE bit
             T == IF isinfinity(R[bit + 1])
                  THEN xDBL(R[3], C)
                  ELSE xADD(R[3], R[(1 - bit) + 1], R[bit + 1])
         IN  <<R[keep + 1], R[3], T>>

xMUL_keep_selected(Pt, C, jj) ==
    xMUL_window(Pt, C, jj, SDACS_LENGTH[jj + 1], FALSE)[3]

xMUL(Pt, C, jj) == xMUL_window(Pt, C, jj, SDACS_LENGTH[jj + 1], TRUE)[3]

\* the loops "for j in range(lo, hi): X = xMUL(X, A, points[j])"
RECURSIVE xMUL_over(_, _, _, _, _)
xMUL_over(Pt, C, pts, lo, hi) ==
    IF lo > hi THEN Pt
    ELSE xMUL_over(xMUL(Pt, C, pts[lo]), C, pts, lo + 1, hi)

\* the implicit return of prime_factors on an empty index list
None == <<"None">>

\* crossed: the first half is given the point multiplied by the second
\* half's primes, and the second half the other one, as the code does
RECURSIVE prime_factors_halves(_, _, _, _)
prime_factors_halves(Pt, C, pts, crossed) ==
    LET len == Len(pts)
        h == len \div 2
    IN  IF len = 1 THEN <<Pt>>
        ELSE IF len > 0
        THEN LET second_P == xMUL_over(Pt, C, pts, 1, h)
                 first_P == xMUL_over(Pt, C, pts, h + 1, len)
                 first_half == SubSeq(pts, 1, h)
                 second_half == SubSeq(pts, h + 1, len)
             IN  IF crossed
                 THEN prime_factors_halves(first_P, C, first_half, crossed)
                        \o prime_factors_halves(second_P, C, second_half, crossed)
                 ELSE prime_factors_halves(second_P, C, first_half, crossed)
                        \o prime_factors_halves(first_P, C, second_half, crossed)
        ELSE None

prime_factors_uncrossed(Pt, C, pts) == prime_factors_halves(Pt, C, pts, FALSE)

prime_factors(Pt, C, pts) == prime_factors_halves(Pt, C, pts, TRUE)

(***************************************************************************)
(* Specification SpecMul: xMUL and prime_factors on the points [k]G of the *)
(* cyclic group of order p + 1, for every prime of the parameter table,    *)
(* with the chains that generate_sdacs computes.                           *)
(***************************************************************************)
CsidhPrimes == {11, 59, 83, 131, 139, 419, 659, 1019, 1091}

\* the non-empty lists of distinct indices of [0, n)
IndexLists ==
    {I \in UNION {[1..m -> 0..(n - 1)] : m \in 1..n} :
        \A a, b \in DOMAIN I : a # b => I[a] # I[b]}

\* the variables the specification leaves alone
notMul == <<fieldVars, ctorVars, kexVars, ladderVars, coeffVars, pointVars, validateVars, torsionVars>>

InitMul ==
    /\ p \in CsidhPrimes
    /\ style = "df"
    /\ validation_stop = 0
    /\ SDACS = generate_sdacs(L)
    /\ pc = "start"
    /\ A = A_start
    /\ P \in {<<k>> : k \in 0..(order - 1)}
    /\ j = -1
    /\ points = <<>>
    /\ Q = <<0, 0>>
    /\ factors = <<>>
    /\ IdleCoeffVars
    /\ IdlePointVars
    /\ IdleValidateVars
    /\ IdleTorsionVars
    /\ IdleFieldVars
    /\ IdleCtorVars
    /\ IdleLadderVars
    /\ IdleKexVars

\* Q = xMUL(P, A, j)
CallxMUL ==
    /\ pc = "start"
    /\ \E jj \in 0..(n - 1) :
        /\ j' = jj
        /\ Q' = xMUL(P, A, jj)
    /\ pc' = "xMUL"
    /\ UNCHANGED <<cfgVars, A, P, points, factors, notMul>>

\* factors = prime_factors(P, A, points)
CallPrimeFactors ==
    /\ pc = "start"
    /\ \E I \in IndexLists :
        /\ points' = I
        /\ factors' = prime_factors(P, A, I)
    /\ pc' = "prime_factors"
    /\ UNCHANGED <<cfgVars, A, P, j, Q, notMul>>

NextMul == CallxMUL \/ CallPrimeFactors

SpecMul == InitMul /\ [][NextMul]_vars

\* the chain read by the call whose index is the variable j
Chain == SDACS[j + 1]

\* round t of xMUL(P, A, j): the window it starts from and the bit it reads
RoundWindow(t) == xMUL_window(P, A, j, t - 1, TRUE)
RoundBit(t) == Chain[Len(Chain) - t + 1]

(***************************************************************************)
(* C2: with SDACS[j] = sdac(L[j]), which exists, xMUL(P, A, j) = [L[j]]P   *)
(* for every point P = [k]G of the cyclic group: every differential        *)
(* addition is given the difference of its two operands (otherwise the     *)
(* result would be undefined), the window of [1]G run over the chain from  *)
(* its last bit to its first ends with third entry L[j], and in a round    *)
(* whose selected operand is infinity the doubling of R[2] is the sum.     *)
(***************************************************************************)
C2_xMUL ==
    pc = "xMUL" =>
        /\ Chain = sdac(L[j + 1])
        /\ Chain # SdacValueError
        /\ Q = <<(L[j + 1] * P[1]) % order>>
        /\ xMUL(<<1>>, A, j) = <<L[j + 1]>>
        /\ \A t \in 1..Len(Chain) :
            LET R == RoundWindow(t)
                bit == RoundBit(t)
            IN  /\ R[bit + 1][1] \in {(R[3][1] - R[(1 - bit) + 1][1]) % order,
                                      (R[(1 - bit) + 1][1] - R[3][1]) % order}
                /\ isinfinity(R[bit + 1]) =>
                      xDBL(R[3], A) = <<(R[3][1] + R[(1 - bit) + 1][1]) % order>>

\* a call on a chain of two bits in which a selected operand is infinity
C2_Witness ==
    /\ pc = "xMUL"
    /\ Len(Chain) >= 2
    /\ P[1] # 0
    /\ \E t \in 1..Len(Chain) : isinfinity(RoundWindow(t)[RoundBit(t) + 1])
    /\ Q = <<(L[j + 1] * P[1]) % order>>

RECURSIVE GCD(_, _)
GCD(a, b) == IF b = 0 THEN a ELSE GCD(b, a % b)

\* the order of [k]G in the cyclic group
OrderOf(Pt) == order \div GCD(order, Pt[1])

RECURSIVE ProductOfPrimes(_, _)
\* the product of L[I[i]] over the positions i of I other than skip
ProductOfPrimes(I, skip) ==
    IF I = <<>> THEN 1
    ELSE (IF Len(I) = skip THEN 1 ELSE L[I[Len(I)] + 1])
            * ProductOfPrimes(SubSeq(I, 1, Len(I) - 1), skip)

ValidatePrimes == {59, 419}

RECURSIVE SumOfBitlengths(_)
SumOfBitlengths(k) == IF k = 0 THEN 0 ELSE bitlength(L[k]) + SumOfBitlengths(k - 1)

\* range(0, fp.n, 1) as a list
AllIndices == [k \in 1..n |-> k - 1]

\* "for i in range(0, fp.exponent_of_two, 1): T = xDBL(T, A)"
RECURSIVE xDBL_times(_, _, _)
xDBL_times(T, C, k) == IF k = 0 THEN T ELSE xDBL_times(xDBL(T, C), C, k - 1)

\* the variables the specification leaves alone
notValidate == <<fieldVars, ctorVars, kexVars, ladderVars, coeffVars, T_m, P, j, points, torsionVars>>

InitValidate ==
    /\ p \in ValidatePrimes
    /\ style = "df"
    /\ validation_stop \in 0..SumOfBitlengths(n)
    /\ SDACS = generate_sdacs(L)
    /\ pc = "start"
    /\ A \in {affine_to_projective(a) : a \in 0..(IF p - 1 < MaxAffine THEN p - 1 ELSE MaxAffine)}
    /\ IdleCoeffVars
    /\ IdlePointVars
    /\ IdleMulVars
    /\ IdleValidateVars
    /\ IdleTorsionVars
    /\ IdleFieldVars
    /\ IdleCtorVars
    /\ IdleLadderVars
    /\ IdleKexVars

\* the head of the while loop: sample, clear the cofactor, factor, and
\* start the accumulator; restart says whether the accumulator is reset
ValidateSampleWith(restart) ==
    /\ pc = "start"
    /\ \E u0 \in 2..p_minus_one_halves :
        LET r == elligator(A, u0)
            T == xDBL_times(r[1], A, exponent_of_two)
        IN  /\ u' = u0
            /\ T_p' = T
            /\ factors' = prime_factors(T, A, AllIndices)
    /\ bits_of_the_order' = IF restart THEN 0 ELSE bits_of_the_order
    /\ i' = 0
    /\ Q' = <<0, 0>>
    /\ pc' = "loop"
    /\ UNCHANGED <<cfgVars, A, ret, notValidate>>

ValidateSample_accumulating == ValidateSampleWith(FALSE)

ValidateSample == ValidateSampleWith(TRUE)

\* one pass of the body of "for i in range(0, fp.n, 1)"
ValidateVisit ==
    /\ pc = "loop"
    /\ i < n
    /\ IF isinfinity(factors[i + 1])
       THEN /\ i' = i + 1
            /\ UNCHANGED <<Q, bits_of_the_order, ret, pc>>
       ELSE LET Qn == xMUL(factors[i + 1], A, i)
                bits == bits_of_the_order + bitlength(L[i + 1])
            IN  /\ Q' = Qn
                /\ IF ~isinfinity(Qn)
                   THEN /\ ret' = "False"
                        /\ pc' = "returned"
                        /\ UNCHANGED <<i, bits_of_the_order>>
                   ELSE /\ bits_of_the_order' = bits
                        /\ IF bits > validation_stop
                           THEN ret' = "True" /\ pc' = "returned" /\ UNCHANGED i
                           ELSE i' = i + 1 /\ UNCHANGED <<ret, pc>>
    /\ UNCHANGED <<cfgVars, A, u, T_p, factors, notValidate>>

\* the for loop ended without a return: back to the head of "while True".
\* The locals the head overwrites before reading them (u, T_p, P, Q, i) are
\* dead there and are put back to their initial values; the accumulator is
\* kept as it is, so that it is the head that decides what it starts from.
ValidateResample ==
    /\ pc = "loop"
    /\ i = n
    /\ pc' = "start"
    /\ u' = -1
    /\ T_p' = <<0, 0>>
    /\ factors' = <<>>
    /\ Q' = <<0, 0>>
    /\ i' = -1
    /\ UNCHANGED <<cfgVars, A, bits_of_the_order, ret, notValidate>>

NextValidate == ValidateSample \/ ValidateVisit \/ ValidateResample

SpecValidate == InitValidate /\ [][NextValidate]_vars

\* index k (0-based) of the running round proves bitlength(L[k]) bits
Proves(k) == ~isinfinity(factors[k + 1]) /\ isinfinity(xMUL(factors[k + 1], A, k))
\* index k of the running round refutes the curve
Refutes(k) == ~isinfinity(factors[k + 1]) /\ ~isinfinity(xMUL(factors[k + 1], A, k))

RECURSIVE ProvedBits(_)
\* the sum of bitlength(L[k]) over the proving indices k < m of the round
ProvedBits(m) ==
    IF m = 0 THEN 0
    ELSE (IF Proves(m - 1) THEN bitlength(L[m]) ELSE 0) + ProvedBits(m - 1)

C3_State ==
    /\ ret = "True" =>
        /\ bits_of_the_order > validation_stop
        /\ bits_of_the_order = ProvedBits(i + 1)
        /\ \A k \in 0..i : ~Refutes(k)
    /\ ret = "False" =>
        /\ Refutes(i)
        /\ \A k \in 0..(i - 1) : ~Refutes(k)
    /\ pc = "loop" =>
        /\ bits_of_the_order = ProvedBits(i)
        /\ bits_of_the_order <= validation_stop
        /\ \A k \in 0..(i - 1) : ~Refutes(k)

C3_Step ==
    /\ (pc = "loop" /\ i < n /\ Refutes(i)) => (pc' = "returned" /\ ret' = "False")
    /\ (pc = "loop" /\ i = n) => (pc' = "start" /\ ret' = "None")
    /\ pc = "start" => (pc' = "loop" /\ bits_of_the_order' = 0 /\ i' = 0)
    /\ pc = "returned" => UNCHANGED vars

(***************************************************************************)
(* C3: validate returns true only when, within one sampling round, the     *)
(* bitlengths of the visited indices with P_i # infinity and [L[i]]P_i =   *)
(* infinity sum to more than validation_stop (the accumulator restarts at  *)
(* 0 with every sample); it returns false as soon as it visits an index    *)
(* with P_i # infinity and [L[i]]P_i # infinity; a round that reaches      *)
(* neither outcome is followed by a new sample.                            *)
(***************************************************************************)
C3_Validate == [](C3_State) /\ [][C3_Step]_vars

\* true is returned by a round that skipped an index whose point was infinity
C3_Witness ==
    /\ ret = "True"
    /\ \E k \in 0..i : isinfinity(factors[k + 1])
    /\ validation_stop >= 4

(***************************************************************************)
(* Specification SpecTorsion: full_torsion_points(A) for each style, on    *)
(* the curve constants affine_to_projective(a), a <= MaxAffine.  A pass of *)
(* the while loop is two steps: the sample with the doublings of T_p, and  *)
(* the tests that fill the slots.                                          *)
(***************************************************************************)
TorsionPrimes == {11, 59}
Styles == {"df", "wd1", "wd2"}

\* the mark of an empty slot of output
Empty == <<0, 0>>

isfull_order(seq) == \A k \in 1..Len(seq) : ~isinfinity(seq[k])

\* the variables the specification leaves alone
notTorsion == <<fieldVars, ctorVars, kexVars, ladderVars, coeffVars, mulVars, validateVars>>

InitTorsion ==
    /\ p \in TorsionPrimes
    /\ style \in Styles
    /\ validation_stop = 0
    /\ SDACS = generate_sdacs(L)
    /\ pc = "head"
    /\ A \in {affine_to_projective(a) : a \in 0..(IF p - 1 < MaxAffine THEN p - 1 ELSE MaxAffine)}
    /\ output = IF style # "wd1" THEN <<Empty, Empty>> ELSE <<Empty, <<1, 1>> >>
    /\ twist_used = FALSE
    /\ IdleCoeffVars
    /\ IdlePointVars
    /\ IdleMulVars
    /\ IdleValidateVars
    /\ IdleLadderVars
    /\ IdleKexVars
    /\ IdleFieldVars
    /\ IdleCtorVars

\* "while [0, 0] in output": T_p, T_m = elligator(A), and the doublings of T_p
TorsionSample ==
    /\ pc = "head"
    /\ Empty \in {output[1], output[2]}
    /\ \E u0 \in 2..p_minus_one_halves :
        LET r == elligator(A, u0)
        IN  /\ u' = u0
            /\ T_p' = xDBL_times(r[1], A, exponent_of_two)
            /\ T_m' = r[2]
    /\ pc' = "sampled"
    /\ UNCHANGED <<cfgVars, A, torsionVars, notTorsion>>

\* the two tests of a pass; guarded says whether a slot is tested for being
\* empty before it is written.  u, T_p and T_m are dead at the loop head and
\* are put back to their initial values.
TorsionFillWith(guarded) ==
    /\ pc = "sampled"
    /\ LET take_p == /\ isfull_order(prime_factors(T_p, A, AllIndices))
                     /\ guarded => output[1] = Empty
           Tm == xDBL_times(T_m, A, exponent_of_two)
           take_m == /\ style # "wd1"
                     /\ isfull_order(prime_factors(Tm, A, AllIndices))
                     /\ guarded => output[2] = Empty
       IN  /\ output' = <<IF take_p THEN T_p ELSE output[1],
                          IF take_m THEN Tm ELSE output[2]>>
           /\ twist_used' = (twist_used \/ style # "wd1")
    /\ pc' = "head"
    /\ u' = -1
    /\ T_p' = <<0, 0>>
    /\ T_m' = <<0, 0>>
    /\ UNCHANGED <<cfgVars, A, notTorsion>>

TorsionFill_overwriting == TorsionFillWith(FALSE)

TorsionFill == TorsionFillWith(TRUE)

\* return output[0], output[1]
TorsionReturn ==
    /\ pc = "head"
    /\ Empty \notin {output[1], output[2]}
    /\ pc' = "returned"
    /\ UNCHANGED <<cfgVars, A, pointVars, torsionVars, notTorsion>>

NextTorsion == TorsionSample \/ TorsionFill \/ TorsionReturn

SpecTorsion == InitTorsion /\ [][NextTorsion]_vars

\* T passes the test of full odd order
Accepted(T) == isfull_order(prime_factors(T, A, AllIndices))
\* T is component c of some sample of elligator(A), after the doublings
Sampled(T, c) ==
    \E u0 \in 2..p_minus_one_halves :
        T = xDBL_times(elligator(A, u0)[c], A, exponent_of_two)

C10_State ==
    /\ style = "wd1" => (output[2] = <<1, 1>> /\ ~twist_used)
    /\ \A c \in 1..2 :
        (output[c] # Empty /\ (c = 1 \/ style # "wd1")) =>
            (Accepted(output[c]) /\ Sampled(output[c], c))
    /\ pc = "returned" => (output[1] # Empty /\ output[2] # Empty)

C10_Step ==
    /\ \A c \in 1..2 : output[c] # Empty => output'[c] = output[c]
    /\ output'[1] # output[1] => (pc = "sampled" /\ output'[1] = T_p)
    /\ output'[2] # output[2] =>
          (pc = "sampled" /\ output'[2] = xDBL_times(T_m, A, exponent_of_two))

(***************************************************************************)
(* C10: full_torsion_points returns only when every required slot holds an *)
(* accepted sample: the first point is a sampled T+ after f doublings all  *)
(* of whose prime_factors are not infinity, and for df and wd2 the second  *)
(* is a sampled T- passing the same test; a filled slot is never replaced; *)
(* for wd1 the second value is [1, 1] and no T- is doubled or factored.    *)
(***************************************************************************)
C10_FullTorsion == [](C10_State) /\ [][C10_Step]_vars

\* a dummy-free call returns two points that were accepted in different passes
C10_Witness ==
    /\ pc = "returned"
    /\ style = "df"
    /\ n = 2
    /\ twist_used
    /\ \A u0 \in 2..p_minus_one_halves :
        LET r == elligator(A, u0)
        IN  ~(/\ output[1] = xDBL_times(r[1], A, exponent_of_two)
              /\ output[2] = xDBL_times(r[2], A, exponent_of_two))

(***************************************************************************)
(* Specification SpecLadder: the head of MontgomeryLadder(prime, style),   *)
(* lines 39 to 46, for every state of the cache file.  The file is         *)
(* missing, unreadable, garbled (a token int() rejects) or present with    *)
(* its lines of integers.                                                  *)
(***************************************************************************)
\* filename_to_list_of_lists_of_ints: any exception gives []
filename_to_list_of_lists_of_ints(file) ==
    IF file.state = "present" THEN file.lines ELSE <<>>

\* write_list_of_lists_of_ints_to_file raises in every call: "for v in v in
\* line" evaluates "v in line" with v unbound (NameError) for the first
\* line of data, and fh.writelines() without argument (TypeError) when data
\* is empty.  open(path, 'w') has emptied or created the file before that,
\* unless it raised itself (OSError).
write_list_of_lists_of_ints_to_file(file, data) ==
    IF file.state = "unreadable"
    THEN [raised |-> "OSError", file |-> file]
    ELSE [raised |-> IF Len(data) > 0 THEN "NameError" ELSE "TypeError",
          file |-> [state |-> "present", lines |-> <<>>]]

\* generate_sdacs is a local name of MontgomeryLadder: the def statement that
\* binds it is on line 102 and the call on line 43 runs before it
GenerateSdacsCallLine == 43
GenerateSdacsDefLine == 102
GenerateSdacsIsBound == GenerateSdacsDefLine < GenerateSdacsCallLine

CacheLines == UNION {[1..w -> 0..1] : w \in 0..MaxLineLen}
CacheFiles ==
    {[state |-> s, lines |-> <<>>] : s \in {"missing", "unreadable", "garbled"}}
        \cup {[state |-> "present", lines |-> ls] :
                ls \in UNION {[1..w -> CacheLines] : w \in 0..MaxLines}}

\* the variables the specification leaves alone
notLadder == <<fieldVars, ctorVars, kexVars, A, coeffVars, pointVars, mulVars, validateVars, torsionVars>>

InitLadder ==
    /\ p \in CsidhPrimes
    /\ style \in Styles
    /\ validation_stop = 0
    /\ SDACS = <<>>
    /\ pc = "start"
    /\ A = A_start
    /\ cache \in CacheFiles \cup {[state |-> "present", lines |-> generate_sdacs(L)]}
    /\ ladder = "none"
    /\ IdleCoeffVars
    /\ IdlePointVars
    /\ IdleMulVars
    /\ IdleValidateVars
    /\ IdleTorsionVars
    /\ IdleFieldVars
    /\ IdleCtorVars
    /\ IdleKexVars

\* the call MontgomeryLadder(prime, style)
Construct ==
    /\ pc = "start"
    /\ LET read == filename_to_list_of_lists_of_ints(cache)
       IN  IF Len(read) # 0
           THEN /\ SDACS' = read
                /\ ladder' = "constructed"
                /\ UNCHANGED cache
           ELSE IF ~GenerateSdacsIsBound
           THEN /\ ladder' = "UnboundLocalError"
                /\ UNCHANGED <<SDACS, cache>>
           ELSE LET w == write_list_of_lists_of_ints_to_file(cache, generate_sdacs(L))
                IN  /\ ladder' = w.raised
                    /\ cache' = w.file
                    /\ UNCHANGED SDACS
    /\ pc' = "done"
    /\ UNCHANGED <<p, style, validation_stop, notLadder>>

NextLadder == Construct

SpecLadder == InitLadder /\ [][NextLadder]_vars

(***************************************************************************)
(* C4: when the cache file is missing, unreadable or empty, construction   *)
(* regenerates the chains, attempts to write them and completes with       *)
(* SDACS equal to generate_sdacs(L); it is never aborted.                  *)
(***************************************************************************)
C4_Regenerates ==
    (pc = "done" /\ filename_to_list_of_lists_of_ints(cache) = <<>>) =>
        /\ ladder = "constructed"
        /\ SDACS = generate_sdacs(L)

(***************************************************************************)
(* Specification SpecKex: the facade CSIDH of sidh/csidh/__init__.py, two  *)
(* parties on one instance.  The group-action engine and the parameter     *)
(* table are not part of the sources at hand; they are modelled from their *)
(* contract: random_key samples the style's domain, pubkey(e) is           *)
(* action(e, A_start), dh(e, A) validates A and returns action(e, A), and  *)
(* action walks the supersingular curves over F_p, whose affine            *)
(* coefficients and l-isogeny steps are tabulated below.                   *)
(***************************************************************************)
KexPrimes == {59, 131, 419}

\* parameters: the number of bits of p, and the exponent bound
p_bits == bitlength(p)
m == MaxExponent

\* the affine coefficients of the supersingular Montgomery curves over F_q
SupersingularA(q) ==
    CASE q = 59 -> <<0, 6, 11, 28, 29, 30, 31, 48, 53>>
      [] q = 131 -> <<0, 6, 15, 17, 27, 38, 54, 55, 76, 77, 93, 104, 114, 116, 125>>
      [] q = 419 -> <<0, 6, 9, 15, 29, 40, 51, 75, 124, 144, 158, 174, 191, 199,
                      220, 228, 245, 261, 275, 295, 344, 368, 379, 390, 404, 410,
                      413>>
      [] OTHER -> <<>>

\* IsogenyStep(q)[k][t]: the coefficient one positive L[k]-isogeny away from
\* the t-th coefficient of SupersingularA(q)
IsogenyStep(q) ==
    CASE q = 59 -> << <<29, 28, 48, 30, 31, 0, 53, 6, 11>>,
                      <<48, 31, 0, 53, 6, 11, 28, 29, 30>> >>
      [] q = 131 -> << <<55, 15, 17, 54, 93, 104, 76, 77, 0, 114, 38, 6, 116, 125,
                         27>>,
                       <<104, 116, 125, 27, 0, 77, 93, 6, 38, 15, 55, 114, 17, 54,
                         76>> >>
      [] q = 419 -> << <<158, 245, 261, 51, 220, 6, 9, 144, 199, 191, 410, 413,
                         174, 390, 295, 275, 228, 0, 344, 40, 15, 404, 124, 29, 75,
                         368, 379>>,
                       <<199, 368, 379, 174, 261, 410, 413, 40, 15, 6, 390, 228,
                         245, 51, 0, 75, 404, 124, 144, 158, 191, 220, 344, 9, 295,
                         29, 275>>,
                       <<75, 15, 368, 158, 245, 344, 410, 379, 295, 124, 144, 390,
                         199, 40, 228, 9, 51, 404, 261, 275, 0, 174, 220, 6, 413,
                         191, 29>> >>
      [] OTHER -> <<>>

IsSupersingular(a) == \E t \in DOMAIN SupersingularA(p) : SupersingularA(p)[t] = a
IndexOfA(a) == CHOOSE t \in DOMAIN SupersingularA(p) : SupersingularA(p)[t] = a

\* one L[k]-isogeny from the curve of coefficient a, in the direction of sign
Step(a, k, sign) ==
    IF sign > 0
    THEN IsogenyStep(p)[k][IndexOfA(a)]
    ELSE SupersingularA(p)[CHOOSE t \in DOMAIN SupersingularA(p) :
                                IsogenyStep(p)[k][t] = a]

RECURSIVE Steps(_, _, _)
Steps(a, k, count) ==
    IF count = 0 THEN a
    ELSE Steps(Step(a, k, count), k, IF count > 0 THEN count - 1 ELSE count + 1)

\* the affine coefficient the class-group action of e gives from a
RECURSIVE ActOn(_, _, _)
ActOn(a, e, k) == IF k > Len(e) THEN a ELSE ActOn(Steps(a, k, e[k]), e, k + 1)

\* gae.action(e, C): the walked curve as a projective constant (A24 : C24)
\* with A24 = A + 2C, C24 = 4C, for some nonzero scaling c of (A, C) = (a, 1)
action(e, C, c) ==
    LET a == ActOn(coeff(C), e, 1)
    IN  <<fp_mul(c, fp_add(a, 2)), fp_mul(c, 4)>>

\* gae.random_key(): the set it samples
ExponentDomain ==
    CASE style = "wd1" -> 0..m
      [] style = "wd2" -> (0 - m)..m
      [] style = "df" -> {e \in (0 - m)..m : (e + m) % 2 = 0}
random_keys == [1..n -> ExponentDomain]

\* gae.pubkey(e)
pubkey(e, c) == action(e, A_start, c)

\* gae.dh(e, C): validate, then act
InvalidPublicKey == <<-4>>
gae_dh(e, C, c) ==
    IF ~IsSupersingular(coeff(C)) THEN InvalidPublicKey ELSE action(e, C, c)

\* struct.pack('<nb', *k) and struct.unpack('<nb', sk): signed bytes
pack(e) == [k \in 1..Len(e) |-> e[k] % 256]
unpack(bytes) ==
    [k \in 1..Len(bytes) |-> IF bytes[k] >= 128 THEN bytes[k] - 256 ELSE bytes[k]]

\* int.to_bytes(length, 'little') and int.from_bytes(bytes, 'little')
OverflowError == <<-3>>
to_bytes(x, length) ==
    IF x >= 256 ^ length THEN OverflowError
    ELSE IF length = 0 THEN <<>>
    ELSE [k \in 1..length |-> (x \div (256 ^ (k - 1))) % 256]

RECURSIVE from_bytes_at(_, _)
from_bytes_at(bytes, k) ==
    IF k > Len(bytes) THEN 0 ELSE bytes[k] + 256 * from_bytes_at(bytes, k + 1)
from_bytes(bytes) == from_bytes_at(bytes, 1)

\* CSIDH.secret_key(): the values it can return
secret_keys == {pack(e) : e \in random_keys}

\* CSIDH.public_key(sk)
public_key(sk, c) ==
    LET xy == pubkey(unpack(sk), c)
        x == coeff(xy)
    IN  to_bytes(x, p_bits \div 8)

\* CSIDH.dh(sk, pk)
dh(sk, pk, c) ==
    LET C == affine_to_projective(from_bytes(pk))
        walked == gae_dh(unpack(sk), C, c)
    IN  IF walked = InvalidPublicKey THEN InvalidPublicKey
        ELSE to_bytes(coeff(walked), p_bits \div 8)

IsBytes(r) == r \notin {NoBytes, OverflowError, InvalidPublicKey}

\* the variables the specification leaves alone
notKex == <<fieldVars, ctorVars, cfgVars, pc, ladderVars, A, coeffVars, pointVars, mulVars, validateVars,
            torsionVars>>

InitKex ==
    /\ p \in KexPrimes
    /\ style \in Styles
    /\ validation_stop = 0
    /\ SDACS = generate_sdacs(L)
    /\ pc = "kex"
    /\ A = A_start
    /\ sk_a \in secret_keys
    /\ sk_b \in secret_keys
    /\ pk_a = NoBytes /\ pk_b = NoBytes
    /\ ss_a = NoBytes /\ ss_b = NoBytes
    /\ IdleCoeffVars
    /\ IdlePointVars
    /\ IdleMulVars
    /\ IdleValidateVars
    /\ IdleTorsionVars
    /\ IdleFieldVars
    /\ IdleCtorVars
    /\ IdleLadderVars

Scalings == 1..MaxScale

\* pk_a = c.public_key(sk_a)
PublicKeyA ==
    /\ pc = "kex"
    /\ pk_a = NoBytes
    /\ \E c \in Scalings : pk_a' = public_key(sk_a, c)
    /\ UNCHANGED <<notKex, sk_a, sk_b, pk_b, ss_a, ss_b>>

\* pk_b = c.public_key(sk_b)
PublicKeyB ==
    /\ pc = "kex"
    /\ pk_b = NoBytes
    /\ \E c \in Scalings : pk_b' = public_key(sk_b, c)
    /\ UNCHANGED <<notKex, sk_a, sk_b, pk_a, ss_a, ss_b>>

\* ss_a = c.dh(sk_a, pk_b), once public_key has returned pk_b
DhA ==
    /\ pc = "kex"
    /\ IsBytes(pk_b)
    /\ ss_a = NoBytes
    /\ \E c \in Scalings : ss_a' = dh(sk_a, pk_b, c)
    /\ UNCHANGED <<notKex, sk_a, sk_b, pk_a, pk_b, ss_b>>

\* ss_b = c.dh(sk_b, pk_a), once public_key has returned pk_a
DhB ==
    /\ pc = "kex"
    /\ IsBytes(pk_a)
    /\ ss_b = NoBytes
    /\ \E c \in Scalings : ss_b' = dh(sk_b, pk_a, c)
    /\ UNCHANGED <<notKex, sk_a, sk_b, pk_a, pk_b, ss_a>>

NextKex == PublicKeyA \/ PublicKeyB \/ DhA \/ DhB

SpecKex == InitKex /\ [][NextKex]_vars

\* the little-endian string of ceil(log2(p) / 8) bytes whose value is x
CeilWidth == (bitlength(p) + 7) \div 8
Encoded(x) == [k \in 1..CeilWidth |-> (x \div (256 ^ (k - 1))) % 256]

(***************************************************************************)
(* C5: public_key(sk) and dh(sk, pk) return exactly ceil(log2(p) / 8)      *)
(* bytes whose little-endian value is the affine coefficient the action    *)
(* produced; no coefficient in [0, p) makes the encoding fail.             *)
(***************************************************************************)
C5_KeyWidth ==
    /\ pk_a # NoBytes => pk_a = Encoded(ActOn(0, unpack(sk_a), 1))
    /\ pk_b # NoBytes => pk_b = Encoded(ActOn(0, unpack(sk_b), 1))
    /\ ss_a # NoBytes =>
           ss_a = Encoded(ActOn(ActOn(0, unpack(sk_b), 1), unpack(sk_a), 1))
    /\ ss_b # NoBytes =>
           ss_b = Encoded(ActOn(ActOn(0, unpack(sk_a), 1), unpack(sk_b), 1))

(***************************************************************************)
(* C1: for every pair of secret keys of one instance, every call of the    *)
(* exchange returns bytes, and dh(sk_a, public_key(sk_b)) equals           *)
(* dh(sk_b, public_key(sk_a)) byte for byte.                               *)
(***************************************************************************)
C1_Commutes ==
    /\ pk_a # NoBytes => IsBytes(pk_a)
    /\ pk_b # NoBytes => IsBytes(pk_b)
    /\ ss_a # NoBytes => IsBytes(ss_a)
    /\ ss_b # NoBytes => IsBytes(ss_b)
    /\ (ss_a # NoBytes /\ ss_b # NoBytes) => ss_a = ss_b

(***************************************************************************)
(* Specification SpecField: the calls of sidh/fp.py on one field instance, *)
(* for every operand of the field, and xDBL with the operation counters    *)
(* of the instance.                                                        *)
(***************************************************************************)
AllPrimes == {q \in 2..MaxPrime : IsPrime(q)}

\* the field operations with the counter each one increments; ops is the
\* record of the three counters of the instance before the call
Counted_fp_add(ops, x, y) ==
    [val |-> fp_add(x, y), ops |-> [ops EXCEPT !.fpadd = @ + 1]]
Counted_fp_sub(ops, x, y) ==
    [val |-> fp_sub(x, y), ops |-> [ops EXCEPT !.fpadd = @ + 1]]
Counted_fp_mul(ops, x, y) ==
    [val |-> fp_mul(x, y), ops |-> [ops EXCEPT !.fpmul = @ + 1]]
\* a squaring done, and counted, as the multiplication fp_mul(x, x)
Counted_fp_sqr_as_mul(ops, x) ==
    [val |-> fp_mul(x, x), ops |-> [ops EXCEPT !.fpmul = @ + 1]]
Counted_fp_sqr(ops, x) ==
    [val |-> fp_sqr(x), ops |-> [ops EXCEPT !.fpsqr = @ + 1]]

\* F_p.get_ops, as a record
get_ops == [fpmul |-> fpmul, fpsqr |-> fpsqr, fpadd |-> fpadd]

\* the for loop of fp_exp, from j = jj on
RECURSIVE fp_exp_loop(_, _, _, _, _, _)
fp_exp_loop(ops, a, e, bits_of_e, jj, tmp_a) ==
    IF jj > bits_of_e THEN [val |-> tmp_a, ops |-> ops]
    ELSE LET sq == Counted_fp_sqr(ops, tmp_a)
             ml == IF (e \div (2 ^ (bits_of_e - jj))) % 2 # 0
                   THEN Counted_fp_mul(sq.ops, sq.val, a)
                   ELSE sq
         IN  fp_exp_loop(ml.ops, a, e, bits_of_e, jj + 1, ml.val)

fp_exp(ops, a, e) == fp_exp_loop(ops, a, e, bitlength(e) - 1, 1, a)

\* xDBL on a point <<X, Z>> of the field, with the counters
xDBL_counted(ops, Pt, C) ==
    LET t_0a == Counted_fp_sub(ops, Pt[1], Pt[2])
        t_1a == Counted_fp_add(t_0a.ops, Pt[1], Pt[2])
        t_0b == Counted_fp_sqr(t_1a.ops, t_0a.val)
        t_1b == Counted_fp_sqr(t_0b.ops, t_1a.val)
        Z1 == Counted_fp_mul(t_1b.ops, C[2], t_0b.val)
        X == Counted_fp_mul(Z1.ops, Z1.val, t_1b.val)
        t_1c == Counted_fp_sub(X.ops, t_1b.val, t_0b.val)
        t_0c == Counted_fp_mul(t_1c.ops, C[1], t_1c.val)
        Z2 == Counted_fp_add(t_0c.ops, Z1.val, t_0c.val)
        Z == Counted_fp_mul(Z2.ops, Z2.val, t_1c.val)
    IN  [val |-> <<X.val, Z.val>>, ops |-> Z.ops]

\* the variables the specification leaves alone
notField == <<cfgVars, coeffVars, pointVars, j, points, factors, validateVars,
              torsionVars, ladderVars, kexVars, ctorVars>>

InitField ==
    /\ p \in AllPrimes
    /\ style = "df"
    /\ validation_stop = 0
    /\ SDACS = <<>>
    /\ pc = "start"
    /\ A = A_start
    /\ IdleCoeffVars
    /\ IdlePointVars
    /\ IdleMulVars
    /\ IdleValidateVars
    /\ IdleTorsionVars
    /\ IdleLadderVars
    /\ IdleKexVars
    /\ IdleFieldVars
    /\ IdleCtorVars

\* fp.fp_inv(a)
CallInv ==
    /\ pc = "start"
    /\ \E a \in 0..(p - 1) :
        /\ fp_a' = a
        /\ fp_out' = fp_inv(a)
    /\ pc' = "fp_inv"
    /\ UNCHANGED <<notField, opsVars, fp_e, A, P, Q>>

\* jacobi(a, fp.p)
CallJacobi ==
    /\ pc = "start"
    /\ \E a \in 0..(p - 1) :
        /\ fp_a' = a
        /\ fp_out' = jacobi(a, p)
    /\ pc' = "jacobi"
    /\ UNCHANGED <<notField, opsVars, fp_e, A, P, Q>>

\* jacobi(a ** 2 % fp.p, fp.p)
CallJacobiOfSquare ==
    /\ pc = "start"
    /\ \E a \in 0..(p - 1) :
        /\ fp_a' = a
        /\ fp_out' = jacobi((a * a) % p, p)
    /\ pc' = "jacobi_sqr"
    /\ UNCHANGED <<notField, opsVars, fp_e, A, P, Q>>

\* fp.fp_exp(a, e)
CallExp ==
    /\ pc = "start"
    /\ \E a \in 0..(p - 1), e \in 0..MaxExp :
        LET r == fp_exp(get_ops, a, e)
        IN  /\ fp_a' = a
            /\ fp_e' = e
            /\ fp_out' = r.val
            /\ fpmul' = r.ops.fpmul
            /\ fpsqr' = r.ops.fpsqr
            /\ fpadd' = r.ops.fpadd
    /\ pc' = "fp_exp"
    /\ UNCHANGED <<notField, A, P, Q>>

\* Q = xDBL(P, A)
CallxDBL ==
    /\ pc = "start"
    /\ \E Pt \in (0..(p - 1)) \X (0..(p - 1)), C \in (0..(p - 1)) \X (0..(p - 1)) :
        LET r == xDBL_counted(get_ops, Pt, C)
        IN  /\ P' = Pt
            /\ A' = C
            /\ Q' = r.val
            /\ fpmul' = r.ops.fpmul
            /\ fpsqr' = r.ops.fpsqr
            /\ fpadd' = r.ops.fpadd
    /\ pc' = "xDBL"
    /\ UNCHANGED <<notField, fp_a, fp_e, fp_out>>

NextField == CallInv \/ CallJacobi \/ CallJacobiOfSquare \/ CallExp \/ CallxDBL

SpecField == InitField /\ [][NextField]_vars

(***************************************************************************)
(* C11: for every prime p and every a in [1, p), fp_inv(a) is a canonical  *)
(* residue in [0, p) and fp_mul(fp_inv(a), a) = 1.                         *)
(***************************************************************************)
C11_Inverse ==
    (pc = "fp_inv" /\ fp_a \in 1..(p - 1)) =>
        /\ fp_out \in 0..(p - 1)
        /\ fp_mul(fp_out, fp_a) = 1

\* an operand for which xgcd returns a negative coefficient
C11_Witness ==
    /\ pc = "fp_inv"
    /\ fp_a \in 1..(p - 1)
    /\ xgcd(fp_a, p)[2] < 0
    /\ fp_out = xgcd(fp_a, p)[2] + p

(***************************************************************************)
(* C12: for every odd prime p and every a in [1, p), jacobi(a, p) is 1     *)
(* when a is a nonzero square mod p and -1 when it is not, never 0; in     *)
(* particular jacobi(a^2 mod p, p) = 1.                                    *)
(***************************************************************************)
C12_Jacobi ==
    /\ (pc = "jacobi" /\ p % 2 = 1 /\ fp_a \in 1..(p - 1)) =>
           fp_out = (IF IsNonzeroSquare(fp_a) THEN 1 ELSE -1)
    /\ (pc = "jacobi_sqr" /\ p % 2 = 1 /\ fp_a \in 1..(p - 1)) => fp_out = 1

\* a non-square for which the loop exchanges two values that are 3 mod 4
C12_Witness ==
    /\ pc = "jacobi"
    /\ p % 4 = 3
    /\ fp_a % 4 = 3
    /\ fp_a \in 1..(p - 1)
    /\ ~IsNonzeroSquare(fp_a)
    /\ fp_out = -1

\* a^e mod p, by e multiplications
RECURSIVE PowMod(_, _)
PowMod(a, e) == IF e = 0 THEN 1 % p ELSE (a * PowMod(a, e - 1)) % p

\* the number of bits set in e
RECURSIVE PopCount(_)
PopCount(e) == IF e = 0 THEN 0 ELSE (e % 2) + PopCount(e \div 2)

(***************************************************************************)
(* C13: for every a in [0, p) and every exponent e >= 0, fp_exp(a, e)      *)
(* returns a^e mod p, with one squaring per exponent bit after the leading *)
(* one and one multiplication per set bit after the leading one.           *)
(***************************************************************************)
C13_Exp ==
    pc = "fp_exp" =>
        /\ fp_out = PowMod(fp_a, fp_e)
        /\ fp_e >= 1 => /\ fpsqr = bitlength(fp_e) - 1
                        /\ fpmul = PopCount(fp_e) - 1
                        /\ fpadd = 0

(***************************************************************************)
(* C14 (as stated): every call of xDBL increases the counters by 3         *)
(* multiplications, 2 squarings and 4 additions or subtractions.           *)
(***************************************************************************)
C14_AsStated ==
    [][pc' = "xDBL" =>
        /\ fpmul' = fpmul + 3
        /\ fpsqr' = fpsqr + 2
        /\ fpadd' = fpadd + 4]_vars

(***************************************************************************)
(* C14 (amended): every call of xDBL increases the counters by 4           *)
(* multiplications, 2 squarings and 4 additions or subtractions, and       *)
(* returns the double of the point.                                        *)
(***************************************************************************)
C14_Counts ==
    [][pc' = "xDBL" =>
        /\ fpmul' = fpmul + 4
        /\ fpsqr' = fpsqr + 2
        /\ fpadd' = fpadd + 4
        /\ Q' = xDBL(P', A')]_vars

C14_Witness ==
    /\ pc = "xDBL"
    /\ P[2] # 0
    /\ A[2] # 0
    /\ fpmul = 4 /\ fpsqr = 2 /\ fpadd = 4

(***************************************************************************)
(* Specification SpecInit: the constructor CSIDH.__init__ of               *)
(* sidh/csidh/__init__.py, called with eight positional arguments as in    *)
(* the doctest, or with keywords as in the call on default_parameters.     *)
(* Python values are written as their repr: "2", "False".                  *)
(***************************************************************************)
\* the parameters of __init__ after self, in the order of the def statement
init_parameters ==
    <<"curvemodel", "prime", "formula", "style", "tuned", "exponent",
      "multievaluation", "verbose">>

\* the order in which the interface documents them
documented_parameters ==
    <<"curvemodel", "prime", "formula", "style", "exponent", "tuned",
      "multievaluation", "verbose">>

\* Python's binding of positional arguments: the k-th value to the k-th name
bind_positional(names, values) ==
    [nm \in {names[k] : k \in DOMAIN names} |->
        values[CHOOSE k \in DOMAIN names : names[k] = nm]]

\* the positional binding in the documented order
bind_documented(values) == bind_positional(documented_parameters, values)

\* the binding a positional call of CSIDH makes
bind(values) == bind_positional(init_parameters, values)

\* the attributes the body of __init__ sets from its bound parameters
init_body(b) ==
    [nm \in {"curvemodel", "prime", "style", "_exponent", "tuned",
             "multievaluation", "formula"} |->
        CASE nm = "curvemodel" -> b["curvemodel"]
          [] nm = "prime" -> b["prime"]
          [] nm = "style" -> b["style"]
          [] nm = "_exponent" -> b["exponent"]
          [] nm = "tuned" -> b["tuned"]
          [] nm = "multievaluation" -> b["multievaluation"]
          [] nm = "formula" -> b["formula"]]

PrimeLabel(q) == CASE q = 59 -> "p59" [] q = 419 -> "p419"
Formulas == {"tvelu", "svelu", "hvelu"}
PyBools == {"True", "False"}
Exponents == {"2", "10"}

\* the values a caller passes, in the documented order
Calls ==
    {<<"montgomery", PrimeLabel(p), f, st, e, t, mu, vb>> :
        f \in Formulas, st \in Styles, e \in Exponents, t \in PyBools,
        mu \in PyBools, vb \in PyBools}

\* the variables the specification leaves alone
notInit == <<p, validation_stop, SDACS, A, coeffVars, pointVars, mulVars,
             validateVars, torsionVars, ladderVars, kexVars, fieldVars>>

InitInit ==
    /\ p \in {59, 419}
    /\ style = "df"
    /\ validation_stop = 0
    /\ SDACS = generate_sdacs(L)
    /\ pc = "start"
    /\ A = A_start
    /\ IdleCoeffVars
    /\ IdlePointVars
    /\ IdleMulVars
    /\ IdleValidateVars
    /\ IdleTorsionVars
    /\ IdleLadderVars
    /\ IdleKexVars
    /\ IdleFieldVars
    /\ IdleCtorVars

\* CSIDH(curvemodel, prime, formula, style, exponent, tuned, multievaluation, verbose)
CallPositional ==
    /\ pc = "start"
    /\ \E values \in Calls :
        /\ args' = values
        /\ inst' = init_body(bind(values))
        /\ style' = inst'["style"]
    /\ pc' = "positional"
    /\ UNCHANGED notInit

\* CSIDH called with keywords: the documented names with the caller's values
CallKeyword ==
    /\ pc = "start"
    /\ \E values \in Calls :
        /\ args' = values
        /\ inst' = init_body(bind_documented(values))
        /\ style' = inst'["style"]
    /\ pc' = "keyword"
    /\ UNCHANGED notInit

NextInit == CallPositional \/ CallKeyword

SpecInit == InitInit /\ [][NextInit]_vars

(***************************************************************************)
(* C15: a positional call in the documented order (curvemodel, prime,      *)
(* formula, style, exponent, tuned, multievaluation, verbose) binds the    *)
(* fifth argument to the exponent and the sixth to tuned: the doctest call *)
(* (..., 'wd1', 2, False, False, False) gives exponent 2 and tuned False.  *)
(***************************************************************************)
C15_Positional ==
    pc = "positional" =>
        /\ inst["_exponent"] = args[5]
        /\ inst["tuned"] = args[6]

====
